---- MODULE Spec2Model ----
(***************************************************************************)
(* A model of the seo4ajax client (src/seo4ajax.go): Client construction   *)
(* (New) and the resilient fetch GetPrerenderedPage, which drives the      *)
(* operation opFunc under backoff.Retry with an exponential back-off; the   *)
(* classifier IsPrerender with its three patterns; and the handler         *)
(* ServeHTTP, which chooses between the fetch, c.next and a 500.           *)
(*                                                                         *)
(* Time is counted in milliseconds.  Header values are strings, with ""    *)
(* for an absent header (what Header.Get returns for it).  A byte of a     *)
(* body is a pair <<id, j>>: the j-th byte of the body of the upstream     *)
(* response received on attempt id; id 0 marks text produced locally by    *)
(* http.Redirect or http.Error.                                            *)
(***************************************************************************)
EXTENDS Integers, Sequences, FiniteSets, TLC

VARIABLES
    cfg,            \* the Config handed to New
    c,              \* the *Client New returned
    r,              \* the inbound *http.Request (r.Header is the live map)
    r0,             \* the inbound headers as they arrived (history)
    w,              \* the caller's http.ResponseWriter
    outputStarted,  \* GetPrerenderedPage's local flag
    pc,             \* position inside GetPrerenderedPage / backoff.Retry
    resp,           \* the upstream response of the attempt last made
    bo,             \* the ExponentialBackOff of this fetch
    err,            \* what opFunc last returned / what backoff.Retry returned
    attempts,       \* number of upstream attempts made (calls of c.http.Do)
    sent,           \* headers of the outbound request of every attempt
    before,         \* history: what the attempts before the last one met
    urls,           \* method and URL of every request c.http sent, in order
    nextCalls,      \* the requests c.next.ServeHTTP was called with
    decision,       \* what the calls of IsPrerender made so far returned
    cleaned,        \* what the calls of cleanPath(r.URL) on their own returned
    other           \* the fetches of the other goroutines, while suspended

vars == <<cfg, c, r, r0, w, outputStarted, pc, resp, bo, err, attempts, sent,
          before, urls, nextCalls, decision, cleaned, other>>

(***************************************************************************)
(* Bounds of the model.                                                    *)
(***************************************************************************)
MaxAttempts == 3
MaxBodyLen == 2

(***************************************************************************)
(* Constants of the program and of the libraries it configures.            *)
(***************************************************************************)
StatusOK == 200
StatusFound == 302
StatusNotFound == 404
StatusInternalServerError == 500
StatusServiceUnavailable == 503

InitialInterval == 50
MaxInterval == 30000
DefaultMaxElapsedTime == 900000

Stop == -1

DefaultIP == "127.0.0.1"
DefaultServer == "http://api.seo4ajax.com"

NoHandler == "nil"

NoClient == [token |-> ""]
NoLocation == ""
NoHeaders == [ContentType |-> "", Nosniff |-> FALSE]
NoResponse == [kind |-> "none", status |-> 0, location |-> NoLocation,
               id |-> 0, len |-> 0, body |-> <<>>, header |-> NoHeaders]
EmptyHeader == [Location |-> "", ContentType |-> "", Nosniff |-> FALSE,
                Upstream |-> 0]

(***************************************************************************)
(* Inputs: the configurations, the inbound requests and what the upstream  *)
(* may answer.                                                             *)
(***************************************************************************)
Tokens == {"", "123"}
IPs == {"", "10.0.0.9"}
Timeouts == {0, 30000}
ErrorStatuses == {0, StatusInternalServerError}

Configs ==
    [Token : Tokens, IP : IPs, Timeout : Timeouts,
     UnconditionalFetch : BOOLEAN, FetchErrorStatus : ErrorStatuses,
     RetryUnavailable : BOOLEAN, Server : {""}, Next : {NoHandler}]

\* The inbound headers the fetch reads or rewrites: none of them present, or
\* a forwarding chain together with both conditional-cache headers.
InboundHeaders ==
    {[XForwardedFor |-> "", IfModifiedSince |-> "", IfNoneMatch |-> "",
      UserAgent |-> <<>>],
     [XForwardedFor |-> "10.0.0.2, 10.0.0.1",
      IfModifiedSince |-> "Sat, 01 Jan 2022 00:00:00 GMT",
      IfNoneMatch |-> "abc",
      UserAgent |-> <<>>]}

\* A path, a raw query and a User-Agent are sequences of characters (strings
\* of length one), so that they can be searched.
\* A *url.URL without fragment: Scheme, Opaque, Host, Path and RawQuery are
\* the fields of that name, User is what u.User.String() spells and <<>>
\* when u.User is nil.  ServerURL is the URL a server parses from the
\* request line "METHOD path?query HTTP/1.1".
ServerURL(path, query) ==
    [Scheme |-> <<>>, Opaque |-> <<>>, User |-> <<>>, Host |-> <<>>,
     Path |-> path, RawQuery |-> query]

Requests ==
    [Method : {"GET", "HEAD"},
     URL : {ServerURL(<<"/", "a", "/", "b">>, <<>>)},
     Header : InboundHeaders]

\* Location values an upstream redirect may carry: an absolute URL and a
\* rooted, clean path.
Locations == {"http://example.com/", "/moved"}

\* The body of the upstream response of attempt id, len bytes long.
Body(id, len) == [j \in 1..len |-> <<id, j>>]

\* The statuses, other than 200 and 302, the upstream may answer with; 301
\* stands for the redirects other than 302.
Statuses ==
    {301, 304, 401, StatusNotFound, StatusInternalServerError,
     StatusServiceUnavailable}

\* What c.http.Do may return on attempt id: a transport error ("error"), a
\* response ("resp"), or a redirect response together with the error of the
\* client's CheckRedirect, which refuses to follow it ("refused").
\* The headers of an upstream answer that the caller's response has a field
\* for: none (an answer without Content-Type, as of an empty handler), or
\* those http.Error sets (as of a handler that answers with http.Error).
ResponseHeaders ==
    {NoHeaders,
     [ContentType |-> "text/plain; charset=utf-8", Nosniff |-> TRUE]}

Outcomes(id) ==
    {[kind |-> "error", status |-> 0, location |-> NoLocation, id |-> id,
      len |-> 0, body |-> <<>>, header |-> NoHeaders]}
    \cup
    {[kind |-> "resp", status |-> s, location |-> NoLocation, id |-> id,
      len |-> 0, body |-> <<>>, header |-> NoHeaders] :
        s \in Statuses \ {301}}
    \cup
    {[kind |-> "refused", status |-> s, location |-> l, id |-> id,
      len |-> 0, body |-> <<>>, header |-> NoHeaders] :
        s \in {301, StatusFound}, l \in Locations}
    \cup
    {[kind |-> "resp", status |-> StatusOK, location |-> NoLocation, id |-> id,
      len |-> n, body |-> Body(id, n), header |-> h] :
        n \in 0..MaxBodyLen, h \in ResponseHeaders}

\* The readings of the clock (time since Retry's Reset) the model draws
\* from: an attempt, or a sleep, ends at one of them.  Two of them lie one
\* initial interval apart, on either side of the 30 s budget.
ClockReadings == {0, 29990, 30040, 1000000}

\* The readings possible at least d after the reading t.
Later(t, d) == {u \in ClockReadings : u >= t + d}

\* The readings at which a sleep of d that starts at the reading t ends: the
\* first one that is d or more after t.
Wake(t, d) == {u \in Later(t, d) : \A v \in Later(t, d) : u <= v}

(***************************************************************************)
(* New: the defaults it fills in and the client it builds.                 *)
(***************************************************************************)
\* New with a slip: the Token is not looked at.
NewAnyToken(cf) ==
    [client |->
        [token |-> cf.Token,
         ip |-> IF cf.IP = "" THEN DefaultIP ELSE cf.IP,
         timeout |-> cf.Timeout,
         unconditionalFetch |-> cf.UnconditionalFetch,
         fetchErrorStatus |->
             IF cf.FetchErrorStatus = 0 THEN StatusServiceUnavailable
             ELSE cf.FetchErrorStatus,
         retryUnavailable |-> cf.RetryUnavailable,
         server |-> IF cf.Server = "" THEN DefaultServer ELSE cf.Server,
         next |-> cf.Next],
     err |-> "nil"]

New(cf) ==
    IF cf.Token = ""
    THEN [client |-> NoClient, err |-> "ErrNoToken"]
    ELSE [client |->
            [token |-> cf.Token,
             ip |-> IF cf.IP = "" THEN DefaultIP ELSE cf.IP,
             timeout |-> cf.Timeout,
             unconditionalFetch |-> cf.UnconditionalFetch,
             fetchErrorStatus |->
                 IF cf.FetchErrorStatus = 0 THEN StatusServiceUnavailable
                 ELSE cf.FetchErrorStatus,
             retryUnavailable |-> cf.RetryUnavailable,
             server |-> IF cf.Server = "" THEN DefaultServer ELSE cf.Server,
             next |-> cf.Next],
          err |-> "nil"]

\* c.http.CheckRedirect, asked before the redirect to req is followed.
CheckRedirect(req, via) == "errRedirect"

(***************************************************************************)
(* The caller's ResponseWriter, as net/http implements it in the writer    *)
(* the tests use (httptest.ResponseRecorder): the first WriteHeader fixes  *)
(* the status and the headers sent, a later one is ignored; the first      *)
(* Write implies WriteHeader(200), before which a response without         *)
(* Content-Type is given the type its first bytes are sniffed to be.       *)
(***************************************************************************)
NewResponseWriter ==
    [header |-> EmptyHeader, code |-> 0, flushed |-> EmptyHeader, body |-> <<>>]

WriteHeader(wr, code) ==
    IF wr.code # 0 THEN wr
    ELSE [wr EXCEPT !.code = code, !.flushed = wr.header]

\* The byte, or for what the handler itself writes the text, that an
\* element of a body stands for.  <<0, 1>> is the note http.Redirect
\* writes and <<0, 2>> the message of http.Error; <<id, j>> is byte j of the
\* body of the answer to attempt id, and these bodies are the beginning of
\* a bitmap file: "B", "M", then zero bytes.
ByteValue(b) ==
    IF b[1] = 0 THEN (IF b[2] = 1 THEN "<a" ELSE "U")
    ELSE IF b[2] = 1 THEN "B"
    ELSE IF b[2] = 2 THEN "M"
    ELSE "NUL"

\* http.DetectContentType(bytes), for the values bytes can have here: the
\* signature of a bitmap is "BM", that of HTML a tag such as "<a"; without
\* a signature the bytes are binary if one of them is a zero byte, and
\* text if none is.
DetectContentType(bytes) ==
    LET val == [i \in 1..Len(bytes) |-> ByteValue(bytes[i])]
    IN  IF Len(val) >= 2 /\ val[1] = "B" /\ val[2] = "M" THEN "image/bmp"
        ELSE IF Len(val) >= 1 /\ val[1] = "<a"
             THEN "text/html; charset=utf-8"
        ELSE IF \E i \in 1..Len(val) : val[i] = "NUL"
             THEN "application/octet-stream"
        ELSE "text/plain; charset=utf-8"

Write(wr, bytes) ==
    LET w0 == IF wr.code = 0 /\ wr.header.ContentType = ""
              THEN [wr EXCEPT !.header.ContentType = DetectContentType(bytes)]
              ELSE wr
        w1 == WriteHeader(w0, StatusOK)
    IN  [w1 EXCEPT !.body = @ \o bytes]

\* The status and headers the caller receives once the handler has returned:
\* a handler that never wrote the header yields an implicit 200.
CallerStatus(wr) == IF wr.code = 0 THEN StatusOK ELSE wr.code
CallerHeader(wr) == IF wr.code = 0 THEN wr.header ELSE wr.flushed

\* w.Header(): the live header map, which shows what was set after the
\* status was sent as well (and which the caller does not receive).
Header(wr) == wr.header

\* http.Redirect(w, r, url, code), for a url that has a scheme or is a rooted
\* clean path (every member of Locations), which Redirect leaves as it is.
HttpRedirect(wr, req, url, code) ==
    LET hadCT == wr.header.ContentType # ""
        h1 == [wr.header EXCEPT !.Location = url]
        h2 == IF ~hadCT /\ req.Method \in {"GET", "HEAD"}
              THEN [h1 EXCEPT !.ContentType = "text/html; charset=utf-8"]
              ELSE h1
        w1 == WriteHeader([wr EXCEPT !.header = h2], code)
    IN  IF ~hadCT /\ req.Method = "GET" THEN Write(w1, <<<<0, 1>>>>) ELSE w1

\* http.Error(w, msg, code).
HttpError(wr, code) ==
    LET h == [wr.header EXCEPT !.ContentType = "text/plain; charset=utf-8",
                               !.Nosniff = TRUE]
    IN  Write(WriteHeader([wr EXCEPT !.header = h], code), <<<<0, 2>>>>)

(***************************************************************************)
(* Strings as sequences of characters, and the regular expressions of the  *)
(* regexp package as far as the program's three patterns use them.  A      *)
(* regular expression is a tree:                                           *)
(*   [op |-> "str", s, fold]     the characters s in a row, compared       *)
(*                               case-insensitively when fold (the (?i:))  *)
(*   [op |-> "class", except]    one character not in except               *)
(*   [op |-> "eol"]              the end of the text ($)                   *)
(*   [op |-> "cat", of]          the expressions of the sequence in a row  *)
(*   [op |-> "alt", of]          one of the expressions of the sequence    *)
(*   [op |-> "rep", of, min, max]  min to max repetitions (max Unbounded)  *)
(***************************************************************************)
UpperCase ==
    <<"A", "B", "C", "D", "E", "F", "G", "H", "I", "J", "K", "L", "M",
      "N", "O", "P", "Q", "R", "S", "T", "U", "V", "W", "X", "Y", "Z">>
LowerCase ==
    <<"a", "b", "c", "d", "e", "f", "g", "h", "i", "j", "k", "l", "m",
      "n", "o", "p", "q", "r", "s", "t", "u", "v", "w", "x", "y", "z">>

\* The case folding of an ASCII character.
Fold(ch) ==
    IF \E k \in 1..Len(UpperCase) : UpperCase[k] = ch
    THEN LowerCase[CHOOSE k \in 1..Len(UpperCase) : UpperCase[k] = ch]
    ELSE ch

Unbounded == -1

Lit(chars) == [op |-> "str", s |-> chars, fold |-> FALSE]
ILit(chars) == [op |-> "str", s |-> chars, fold |-> TRUE]
\* .  (any character but a newline) and [^?]
AnyChar == [op |-> "class", except |-> {"\n"}]
NotQuestionMark == [op |-> "class", except |-> {"?"}]
EndOfText == [op |-> "eol"]
Cat(res) == [op |-> "cat", of |-> res]
Alt(res) == [op |-> "alt", of |-> res]
Rep(re, min, max) == [op |-> "rep", of |-> re, min |-> min, max |-> max]
Star(re) == Rep(re, 0, Unbounded)

\* Ends(re, s, i): the positions j such that re matches s[i..j-1].
RECURSIVE Ends(_, _, _), EndsCat(_, _, _), EndsRep(_, _, _, _, _)
Ends(re, s, i) ==
    CASE re.op = "str" ->
           IF /\ i + Len(re.s) - 1 <= Len(s)
              /\ \A k \in 1..Len(re.s) :
                    IF re.fold THEN Fold(s[i + k - 1]) = Fold(re.s[k])
                    ELSE s[i + k - 1] = re.s[k]
           THEN {i + Len(re.s)} ELSE {}
      [] re.op = "class" ->
           IF i <= Len(s) /\ s[i] \notin re.except THEN {i + 1} ELSE {}
      [] re.op = "eol" -> IF i = Len(s) + 1 THEN {i} ELSE {}
      [] re.op = "cat" -> EndsCat(re.of, s, {i})
      [] re.op = "alt" -> UNION {Ends(re.of[k], s, i) : k \in 1..Len(re.of)}
      [] re.op = "rep" -> EndsRep(re.of, re.min, re.max, s, {i})

EndsCat(res, s, from) ==
    IF res = <<>> \/ from = {} THEN from
    ELSE EndsCat(Tail(res), s, UNION {Ends(Head(res), s, j) : j \in from})

EndsRep(re, min, max, s, from) ==
    LET here == IF min = 0 THEN from ELSE {}
        step == UNION {Ends(re, s, j) : j \in from}
    IN  IF from = {} \/ max = 0 THEN here
        ELSE here \cup EndsRep(re, IF min = 0 THEN 0 ELSE min - 1,
                               IF max = Unbounded THEN max ELSE max - 1,
                               s, step \ here)

\* re.MatchString(s): re matches somewhere in s.
MatchString(re, s) == \E i \in 1..(Len(s) + 1) : Ends(re, s, i) # {}

\* strings.Contains(s, sub)
Contains(s, sub) ==
    \E i \in 1..(Len(s) - Len(sub) + 1) : SubSeq(s, i, i + Len(sub) - 1) = sub

(***************************************************************************)
(* The classifier IsPrerender and its three patterns.                      *)
(***************************************************************************)
\* regexInvalidUserAgent with a slip: the (?i: is missing.
regexInvalidUserAgentCaseSensitive ==
    Alt(<<Lit(<<"b", "i", "n", "g">>),
          Lit(<<"m", "s", "n", "b", "o", "t">>),
          Lit(<<"y", "a", "n", "d", "e", "x", "b", "o", "t">>),
          Cat(<<Lit(<<"p", "i", "n", "t", "e", "r", "e", "s", "t">>),
                Star(AnyChar), Lit(<<"i", "o", "s">>)>>),
          Lit(<<"m", "a", "i", "l", ".", "r", "u">>)>>)

\* (?i:bing|msnbot|yandexbot|pinterest.*ios|mail\.ru)
regexInvalidUserAgent ==
    Alt(<<ILit(<<"b", "i", "n", "g">>),
          ILit(<<"m", "s", "n", "b", "o", "t">>),
          ILit(<<"y", "a", "n", "d", "e", "x", "b", "o", "t">>),
          Cat(<<ILit(<<"p", "i", "n", "t", "e", "r", "e", "s", "t">>),
                Star(AnyChar), ILit(<<"i", "o", "s">>)>>),
          ILit(<<"m", "a", "i", "l", ".", "r", "u">>)>>)

\* (?i:bot|google|crawler|spider|archiver|pinterest|facebookexternalhit|
\*     flipboardproxy)
regexValidUserAgent ==
    Alt(<<ILit(<<"b", "o", "t">>),
          ILit(<<"g", "o", "o", "g", "l", "e">>),
          ILit(<<"c", "r", "a", "w", "l", "e", "r">>),
          ILit(<<"s", "p", "i", "d", "e", "r">>),
          ILit(<<"a", "r", "c", "h", "i", "v", "e", "r">>),
          ILit(<<"p", "i", "n", "t", "e", "r", "e", "s", "t">>),
          ILit(<<"f", "a", "c", "e", "b", "o", "o", "k", "e", "x", "t", "e",
                "r", "n", "a", "l", "h", "i", "t">>),
          ILit(<<"f", "l", "i", "p", "b", "o", "a", "r", "d", "p", "r", "o",
                "x", "y">>)>>)

\* .*(\.[^?]{2,4}$|\.[^?]{2,4}?.*)   The ? that follows the second {2,4} is
\* not escaped: it makes that repetition lazy, it is not a question mark.
regexPath ==
    Cat(<<Star(AnyChar),
          Alt(<<Cat(<<Lit(<<".">>), Rep(NotQuestionMark, 2, 4), EndOfText>>),
                Cat(<<Lit(<<".">>), Rep(NotQuestionMark, 2, 4),
                      Star(AnyChar)>>)>>)>>)

EscapedFragment ==
    <<"_", "e", "s", "c", "a", "p", "e", "d", "_", "f", "r", "a", "g", "m",
          "e", "n", "t", "_">>

\* IsPrerender with a slip: the user-agent deny-list is consulted before
\* the query.
IsPrerenderAgentFirst(req) ==
    IF req.Method # "GET" /\ req.Method # "HEAD" THEN FALSE
    ELSE IF MatchString(regexInvalidUserAgent, req.Header.UserAgent) THEN FALSE
    ELSE IF Contains(req.URL.RawQuery, EscapedFragment) THEN TRUE
    ELSE IF MatchString(regexPath, req.URL.Path) THEN FALSE
    ELSE MatchString(regexValidUserAgent, req.Header.UserAgent)

\* IsPrerender with a slip: the method is not looked at.
IsPrerenderAnyMethod(req) ==
    IF Contains(req.URL.RawQuery, EscapedFragment) THEN TRUE
    ELSE IF MatchString(regexInvalidUserAgent, req.Header.UserAgent) THEN FALSE
    ELSE IF MatchString(regexPath, req.URL.Path) THEN FALSE
    ELSE MatchString(regexValidUserAgent, req.Header.UserAgent)

\* IsPrerender with a slip: the path is not looked at.
IsPrerenderAnyPath(req) ==
    IF req.Method # "GET" /\ req.Method # "HEAD" THEN FALSE
    ELSE IF Contains(req.URL.RawQuery, EscapedFragment) THEN TRUE
    ELSE IF MatchString(regexInvalidUserAgent, req.Header.UserAgent) THEN FALSE
    ELSE MatchString(regexValidUserAgent, req.Header.UserAgent)

IsPrerender(req) ==
    IF req.Method # "GET" /\ req.Method # "HEAD" THEN FALSE
    ELSE IF Contains(req.URL.RawQuery, EscapedFragment) THEN TRUE
    ELSE IF MatchString(regexInvalidUserAgent, req.Header.UserAgent) THEN FALSE
    ELSE IF MatchString(regexPath, req.URL.Path) THEN FALSE
    ELSE MatchString(regexValidUserAgent, req.Header.UserAgent)

(***************************************************************************)
(* opFunc, the operation backoff.Retry drives.                             *)
(***************************************************************************)
\* The string a sequence of characters spells.
RECURSIVE Str(_)
Str(chars) == IF chars = <<>> THEN "" ELSE Head(chars) \o Str(Tail(chars))

\* The part of a path before its first "/".
RECURSIVE FirstSegment(_)
FirstSegment(path) ==
    IF path = <<>> \/ Head(path) = "/" THEN <<>>
    ELSE <<Head(path)>> \o FirstSegment(Tail(path))

\* u.String() of net/url, for a URL without fragment and without ForceQuery
\* whose parts need no escaping: "scheme:opaque?query" or
\* "scheme://userinfo@host/path?query", each part only if it is there.
URLString(u) ==
    LET scheme == IF u.Scheme # <<>> THEN u.Scheme \o <<":">> ELSE <<>>
        slashes == IF u.Host # <<>> \/ u.Path # <<>> \/ u.User # <<>>
                   THEN <<"/", "/">> ELSE <<>>
        user == IF u.User # <<>> THEN u.User \o <<"@">> ELSE <<>>
        authority == IF u.Scheme # <<>> \/ u.Host # <<>> \/ u.User # <<>>
                     THEN slashes \o user \o u.Host ELSE <<>>
        slash == IF u.Path # <<>> /\ u.Path[1] # "/" /\ u.Host # <<>>
                 THEN <<"/">> ELSE <<>>
        dot == IF scheme \o authority \o slash = <<>>
                  /\ Contains(FirstSegment(u.Path), <<":">>)
               THEN <<".", "/">> ELSE <<>>
        hier == IF u.Opaque # <<>> THEN u.Opaque
                ELSE authority \o slash \o dot \o u.Path
        query == IF u.RawQuery # <<>> THEN <<"?">> \o u.RawQuery ELSE <<>>
    IN  scheme \o hier \o query

\* cleanPath with a slip: the host is left in the copy.
cleanPathKeepHost(u) ==
    LET path == IF u.Path = <<>> THEN <<"/">>
                ELSE IF u.Path[1] # "/" THEN <<"/">> \o u.Path
                ELSE u.Path
    IN  URLString([u EXCEPT !.Path = path, !.Scheme = <<>>, !.Opaque = <<>>,
                            !.User = <<>>])

\* cleanPath(u): the string of a copy of u whose path is rooted and whose
\* scheme, opaque part, user and host are emptied.
cleanPath(u) ==
    LET path == IF u.Path = <<>> THEN <<"/">>
                ELSE IF u.Path[1] # "/" THEN <<"/">> \o u.Path
                ELSE u.Path
    IN  URLString([u EXCEPT !.Path = path, !.Scheme = <<>>, !.Opaque = <<>>,
                            !.User = <<>>, !.Host = <<>>])

\* The URL of the outbound request with a slip: the token is left out.
RequestURLNoToken(client, req) ==
    client.server \o "/" \o Str(cleanPath(req.URL))

\* fmt.Sprintf("%s/%s%s", c.server, c.token, cleanPath(r.URL))
RequestURL(client, req) ==
    client.server \o "/" \o client.token \o Str(cleanPath(req.URL))

\* http.NewRequest("GET", url, nil): the method and the URL of the outbound
\* request, whatever the method of the inbound one.
NewRequest(client, req) ==
    [Method |-> "GET", URL |-> RequestURL(client, req)]

\* c.http.Do(req) when the upstream answers req with a: the requests made
\* and what Do returns.  A redirect answer is put to CheckRedirect; on its
\* error Do returns that answer with the error, else it requests the target
\* (whose answer is not modelled further).
Do(req, a) ==
    IF a.kind = "refused" /\ CheckRedirect(a.location, <<req.URL>>) = "nil"
    THEN [urls |-> <<req, [Method |-> "GET", URL |-> a.location]>>,
          resp |-> [a EXCEPT !.kind = "error", !.status = 0,
                             !.location = NoLocation]]
    ELSE [urls |-> <<req>>, resp |-> a]

\* strings.Join(ips, ", ") with ips = [c.ip] or [c.ip, xff].
XForwardedFor(ip, xff) == IF xff # "" THEN ip \o ", " \o xff ELSE ip

\* The header map of the outbound request.  req.Header = r.Header makes it
\* the inbound request's own map, so h is read from, and the result is
\* stored back to, r.Header.
OutboundHeader(client, h) ==
    LET h1 == [h EXCEPT !.XForwardedFor = XForwardedFor(client.ip, h.XForwardedFor)]
    IN  IF client.unconditionalFetch
        THEN [h1 EXCEPT !.IfModifiedSince = "", !.IfNoneMatch = ""]
        ELSE h1

\* OpResult with a slip: every status other than 200 and 302 ends the retry
\* loop, 503 and 404 whatever RetryUnavailable says.
OpResultNoRetry(client, o) ==
    IF o.kind = "error" THEN "transient"
    ELSE IF o.status = StatusFound THEN "redirect"
    ELSE IF o.status # StatusOK THEN "permanent"
    ELSE "stream"

\* What opFunc makes of the answer of c.http.Do.
OpResult(client, o) ==
    IF o.kind = "error" THEN "transient"
    ELSE IF o.status = StatusFound THEN "redirect"
    ELSE IF ~client.retryUnavailable
            /\ o.status \in {StatusServiceUnavailable, StatusNotFound}
         THEN "permanent"
    ELSE IF o.status # StatusOK THEN "transient"
    ELSE "stream"

\* for header, val := range resp.Header { w.Header()[header] = val }: every
\* header the answer has replaces the caller's, one it does not have leaves
\* the caller's as it is.  Upstream stands for the headers every answer has
\* (Date): it tells whose answer's headers the caller's response carries.
CopyHeaders(wr, o) ==
    [wr EXCEPT
        !.header.Location = IF o.location # NoLocation THEN o.location ELSE @,
        !.header.ContentType =
            IF o.header.ContentType # "" THEN o.header.ContentType ELSE @,
        !.header.Nosniff = IF o.header.Nosniff THEN TRUE ELSE @,
        !.header.Upstream = o.id]

\* AfterRetry with a slip: the outputStarted guard is missing.
AfterRetryUnguarded(wr, client, e, started) ==
    IF e # "nil" THEN HttpError(wr, client.fetchErrorStatus) ELSE wr

\* The end of GetPrerenderedPage, once backoff.Retry has returned e.
AfterRetry(wr, client, e, started) ==
    IF e # "nil" /\ ~started THEN HttpError(wr, client.fetchErrorStatus) ELSE wr

(***************************************************************************)
(* The ExponentialBackOff GetPrerenderedPage configures.                   *)
(***************************************************************************)
NewExponentialBackOff(client) ==
    [currentInterval |-> InitialInterval,
     elapsed |-> 0,
     maxElapsedTime |->
         IF client.timeout > 0 THEN client.timeout ELSE DefaultMaxElapsedTime]

\* getRandomValueFromInterval with RandomizationFactor 0.5: every wait of
\* whole milliseconds from half the interval to one and a half times it.
RandomizedIntervals(cur) == (cur - cur \div 2)..(cur + cur \div 2)

\* incrementCurrentInterval with Multiplier 1.5.
IncrementCurrentInterval(cur) ==
    IF 3 * cur >= 2 * MaxInterval THEN MaxInterval ELSE (3 * cur) \div 2

\* NextBackOff: the waits it may return, or Stop.
NextBackOff(b) ==
    IF b.maxElapsedTime # 0 /\ b.elapsed > b.maxElapsedTime
    THEN {Stop}
    ELSE RandomizedIntervals(b.currentInterval)

(***************************************************************************)
(* The state machine.                                                      *)
(***************************************************************************)
\* The history of the attempts up to and including the one answered by o,
\* given the history h of those before it: "none" (no attempt),
\* "unavailable" (each answered 503 or 404), "other".
History(h, o) ==
    IF o.kind = "none" THEN "none"
    ELSE IF h \in {"none", "unavailable"}
            /\ o.status \in {StatusServiceUnavailable, StatusNotFound}
         THEN "unavailable"
    ELSE "other"

Init ==
    /\ cfg \in Configs
    /\ c = New(cfg).client
    /\ r \in Requests
    /\ r0 = r.Header
    /\ w = NewResponseWriter
    /\ outputStarted = FALSE
    /\ pc = "idle"
    /\ resp = NoResponse
    /\ bo = [currentInterval |-> 0, elapsed |-> 0, maxElapsedTime |-> 0]
    /\ err = "nil"
    /\ attempts = 0
    /\ sent = <<>>
    /\ before = "none"
    /\ urls = <<>>
    /\ nextCalls = <<>>
    /\ decision = <<>>
    /\ cleaned = <<>>
    /\ other = <<>>

\* GetPrerenderedPage is called: the back-off is set up and Retry resets it.
GetPrerenderedPage ==
    /\ pc = "idle"
    /\ c # NoClient
    /\ bo' = NewExponentialBackOff(c)
    /\ pc' = "op"
    /\ UNCHANGED <<cfg, c, r, r0, w, outputStarted, resp, err, attempts, sent,
                   before, urls, nextCalls, decision, cleaned, other>>

\* opFunc from its beginning to the call of c.http.Do: the outbound request
\* is built, its headers are set in the map it shares with the inbound
\* request, and it is sent.
OperationSend ==
    /\ pc = "op"
    /\ attempts < MaxAttempts
    /\ LET h == OutboundHeader(c, r.Header)
       IN  /\ r' = [r EXCEPT !.Header = h]
           /\ sent' = Append(sent, h)
    /\ urls' = Append(urls, NewRequest(c, r))
    /\ attempts' = attempts + 1
    /\ pc' = "do"
    /\ UNCHANGED <<cfg, c, r0, w, outputStarted, resp, bo, err, before,
                   nextCalls, decision, cleaned, other>>

\* opFunc from the return of c.http.Do to its own return, or to the start
\* of io.Copy.
OperationReceive ==
    /\ pc = "do"
    /\ \E a \in Outcomes(attempts), t \in Later(bo.elapsed, 0) :
         LET d == Do(urls[Len(urls)], a)
             o == d.resp
             res == OpResult(c, o)
         IN  /\ urls' = urls \o Tail(d.urls)
             /\ bo' = [bo EXCEPT !.elapsed = t]
             /\ resp' = o
             /\ before' = History(before, resp)
             /\ CASE res = "transient" ->
                        /\ err' = "transient"
                        /\ pc' = "next"
                        /\ UNCHANGED <<w, outputStarted>>
                  [] res = "redirect" ->
                        /\ err' = "nil"
                        /\ pc' = "done"
                        /\ w' = AfterRetry(HttpRedirect(w, r, o.location, StatusFound),
                                           c, "nil", outputStarted)
                        /\ UNCHANGED outputStarted
                  [] res = "permanent" ->
                        /\ err' = "permanent"
                        /\ pc' = "done"
                        /\ w' = AfterRetry(w, c, "permanent", outputStarted)
                        /\ UNCHANGED outputStarted
                  [] res = "stream" ->
                        /\ w' = CopyHeaders(w, o)
                        /\ outputStarted' = TRUE
                        /\ pc' = "copy"
                        /\ UNCHANGED err
    /\ UNCHANGED <<cfg, c, r, r0, attempts, sent, nextCalls, decision, cleaned,
                   other>>

\* io.Copy reads what has arrived of the upstream body, one byte or more,
\* and writes it to the caller in one Write.
CopyChunk ==
    /\ pc = "copy"
    /\ resp.body # <<>>
    /\ \E n \in 1..Len(resp.body) :
         /\ w' = Write(w, SubSeq(resp.body, 1, n))
         /\ resp' = [resp EXCEPT !.body = SubSeq(@, n + 1, Len(@))]
    /\ UNCHANGED <<cfg, c, r, r0, outputStarted, pc, bo, err, attempts, sent,
                   before, urls, nextCalls, decision, cleaned, other>>

\* io.Copy reaches the end of the body: opFunc and Retry return nil.
CopyDone ==
    /\ pc = "copy"
    /\ resp.body = <<>>
    /\ err' = "nil"
    /\ pc' = "done"
    /\ w' = AfterRetry(w, c, "nil", outputStarted)
    /\ UNCHANGED <<cfg, c, r, r0, outputStarted, resp, bo, attempts, sent,
                   before, urls, nextCalls, decision, cleaned, other>>

\* io.Copy fails (reading upstream or writing to the caller): opFunc
\* returns that error.
CopyError ==
    /\ pc = "copy"
    /\ err' = "copy"
    /\ pc' = "next"
    /\ UNCHANGED <<cfg, c, r, r0, w, outputStarted, resp, bo, attempts, sent,
                   before, urls, nextCalls, decision, cleaned, other>>

\* Retry, after a failed operation: NextBackOff says Stop, Retry returns the
\* error and GetPrerenderedPage ends.
GiveUp ==
    /\ pc = "next"
    /\ Stop \in NextBackOff(bo)
    /\ pc' = "done"
    /\ err' = "stop"
    /\ w' = AfterRetry(w, c, "stop", outputStarted)
    /\ UNCHANGED <<cfg, c, r, r0, outputStarted, resp, bo, attempts, sent,
                   before, urls, nextCalls, decision, cleaned, other>>

\* Retry, after a failed operation: it sleeps for the wait NextBackOff
\* returned and calls the operation again.
Backoff ==
    /\ pc = "next"
    /\ \E t \in UNION {Wake(bo.elapsed, next) :
                         next \in NextBackOff(bo) \ {Stop}} :
         bo' = [bo EXCEPT !.elapsed = t,
                          !.currentInterval = IncrementCurrentInterval(@)]
    /\ pc' = "op"
    /\ UNCHANGED <<cfg, c, r, r0, w, outputStarted, resp, err, attempts, sent,
                   before, urls, nextCalls, decision, cleaned, other>>

Next ==
    \/ GetPrerenderedPage
    \/ OperationSend
    \/ OperationReceive
    \/ CopyChunk
    \/ CopyDone
    \/ CopyError
    \/ GiveUp
    \/ Backoff

Spec == Init /\ [][Next]_vars

\* The fetches of a Client whose Config.Timeout is positive, in which every
\* step that can be taken is taken in the end: an upstream attempt returns,
\* io.Copy ends or fails, Retry's sleep is over.
TimedInit == Init /\ c # NoClient /\ c.timeout > 0

FairSpec == TimedInit /\ [][Next]_vars /\ WF_vars(Next)

(***************************************************************************)
(* The classifier on its own: IsPrerender applied to requests drawn from   *)
(* methods, raw queries, paths (directory, name, extension; none has a     *)
(* question mark) and User-Agent values (a head and a tail).               *)
(***************************************************************************)
Methods == {"GET", "HEAD", "POST"}

RawQueries ==
    {
     \* ""
     <<>>,
     \* "q=1"
     <<"q", "=", "1">>,
     \* "_escaped_fragment_"
     <<"_", "e", "s", "c", "a", "p", "e", "d", "_", "f", "r", "a", "g",
       "m", "e", "n", "t", "_">>,
     \* "a=1&_escaped_fragment_=x&b=2"
     <<"a", "=", "1", "&", "_", "e", "s", "c", "a", "p", "e", "d", "_",
       "f", "r", "a", "g", "m", "e", "n", "t", "_", "=", "x", "&", "b",
       "=", "2">>,
     \* "_escaped_fragment=1"
     <<"_", "e", "s", "c", "a", "p", "e", "d", "_", "f", "r", "a", "g",
       "m", "e", "n", "t", "=", "1">>
    }

Directories ==
    {
     \* "/"
     <<"/">>,
     \* "/path/"
     <<"/", "p", "a", "t", "h", "/">>,
     \* "/v1.10/"
     <<"/", "v", "1", ".", "1", "0", "/">>
    }

FileNames ==
    {
     \* ""
     <<>>,
     \* "index"
     <<"i", "n", "d", "e", "x">>,
     \* "somefile"
     <<"s", "o", "m", "e", "f", "i", "l", "e">>
    }

Extensions ==
    {
     \* ""
     <<>>,
     \* "."
     <<".">>,
     \* ".j"
     <<".", "j">>,
     \* ".js"
     <<".", "j", "s">>,
     \* ".css"
     <<".", "c", "s", "s">>,
     \* ".htm"
     <<".", "h", "t", "m">>,
     \* ".html"
     <<".", "h", "t", "m", "l">>,
     \* ".jsonx"
     <<".", "j", "s", "o", "n", "x">>
    }

Paths ==
    {d \o n \o e : d \in Directories, n \in FileNames, e \in Extensions}

UserAgentHeads ==
    {
     \* ""
     <<>>,
     \* "Mozilla/5.0 "
     <<"M", "o", "z", "i", "l", "l", "a", "/", "5", ".", "0", " ">>,
     \* "bing"
     <<"b", "i", "n", "g">>,
     \* "[Pinterest/"
     <<"[", "P", "i", "n", "t", "e", "r", "e", "s", "t", "/">>
    }

UserAgentTails ==
    {
     \* ""
     <<>>,
     \* "Googlebot"
     <<"G", "o", "o", "g", "l", "e", "b", "o", "t">>,
     \* "Twitterbot"
     <<"T", "w", "i", "t", "t", "e", "r", "b", "o", "t">>,
     \* "crawler"
     <<"c", "r", "a", "w", "l", "e", "r">>,
     \* "spider"
     <<"s", "p", "i", "d", "e", "r">>,
     \* "archiver"
     <<"a", "r", "c", "h", "i", "v", "e", "r">>,
     \* "pinterest"
     <<"p", "i", "n", "t", "e", "r", "e", "s", "t">>,
     \* "facebookexternalhit/1.1"
     <<"f", "a", "c", "e", "b", "o", "o", "k", "e", "x", "t", "e", "r",
       "n", "a", "l", "h", "i", "t", "/", "1", ".", "1">>,
     \* "FlipboardProxy/1.1"
     <<"F", "l", "i", "p", "b", "o", "a", "r", "d", "P", "r", "o", "x",
       "y", "/", "1", ".", "1">>,
     \* "Flipboard/2.2.3"
     <<"F", "l", "i", "p", "b", "o", "a", "r", "d", "/", "2", ".", "2",
       ".", "3">>,
     \* "iOS]"
     <<"i", "O", "S", "]">>,
     \* "YandexBot/3.0"
     <<"Y", "a", "n", "d", "e", "x", "B", "o", "t", "/", "3", ".", "0">>,
     \* "MSNBot"
     <<"M", "S", "N", "B", "o", "t">>,
     \* "Mail.RU"
     <<"M", "a", "i", "l", ".", "R", "U">>,
     \* "mailxru"
     <<"m", "a", "i", "l", "x", "r", "u">>,
     \* "Safari/534.30"
     <<"S", "a", "f", "a", "r", "i", "/", "5", "3", "4", ".", "3", "0">>
    }

UserAgents == {h \o t : h \in UserAgentHeads, t \in UserAgentTails}

ClassifierRequests ==
    [Method : Methods,
     URL : {ServerURL(path, query) : path \in Paths, query \in RawQueries},
     Header : [XForwardedFor : {""}, IfModifiedSince : {""},
               IfNoneMatch : {""}, UserAgent : UserAgents]]

\* Nothing has been called yet.
Idle ==
    /\ w = NewResponseWriter
    /\ outputStarted = FALSE
    /\ pc = "idle"
    /\ resp = NoResponse
    /\ bo = [currentInterval |-> 0, elapsed |-> 0, maxElapsedTime |-> 0]
    /\ err = "nil"
    /\ attempts = 0
    /\ sent = <<>>
    /\ before = "none"
    /\ urls = <<>>
    /\ nextCalls = <<>>
    /\ decision = <<>>
    /\ cleaned = <<>>
    /\ other = <<>>

ClassifyInit ==
    /\ cfg \in {cf \in Configs : cf.Token # "" /\ cf.IP = "" /\ cf.Timeout = 0
                              /\ ~cf.UnconditionalFetch
                              /\ cf.FetchErrorStatus = 0
                              /\ ~cf.RetryUnavailable}
    /\ c = New(cfg).client
    /\ r \in ClassifierRequests
    /\ r0 = r.Header
    /\ Idle

\* IsPrerender(r) is called.
Classify ==
    /\ decision = <<>>
    /\ decision' = <<IsPrerender(r)>>
    /\ UNCHANGED <<cfg, c, r, r0, w, outputStarted, pc, resp, bo, err, attempts,
                   sent, before, urls, nextCalls, cleaned, other>>

ClassifySpec == ClassifyInit /\ [][Classify]_vars

(***************************************************************************)
(* The handler: Client.ServeHTTP, which classifies the request and serves  *)
(* it by GetPrerenderedPage, by c.next, or with a 500.                     *)
(***************************************************************************)
ServeConfigs ==
    [Token : {"123"}, IP : {""}, Timeout : {30000},
     UnconditionalFetch : {FALSE}, FetchErrorStatus : {0},
     RetryUnavailable : {FALSE}, Server : {""},
     Next : {NoHandler, "handler"}]

\* The URLs are those of requests as a server parses them and, as in the
\* tests, as http.NewRequest parses an absolute URL.
ServeRequests ==
    [Method : {"GET", "HEAD", "POST"},
     URL : [Scheme : {<<>>}, Opaque : {<<>>}, User : {<<>>}, Host : {<<>>},
            Path : {<<"/", "a", "/", "b">>, <<"/", "a", ".", "j", "s">>},
            RawQuery : {<<>>, EscapedFragment}]
           \cup [Scheme : {<<"h", "t", "t", "p">>}, Opaque : {<<>>},
                 User : {<<>>}, Host : {<<"h", ":", "8", "0">>},
                 Path : {<<>>, <<"/", "a", "/", "b">>},
                 RawQuery : {<<>>, EscapedFragment}],
     Header : [XForwardedFor : {""}, IfModifiedSince : {""},
               IfNoneMatch : {""},
               UserAgent : {<<>>,
                            <<"G", "o", "o", "g", "l", "e", "b", "o", "t">>,
                            <<"b", "i", "n", "g", "b", "o", "t">>}]]

ServeInit ==
    /\ cfg \in ServeConfigs
    /\ c = New(cfg).client
    /\ r \in ServeRequests
    /\ r0 = r.Header
    /\ Idle

\* ServeHTTP with a slip: no return after GetPrerenderedPage, so that a
\* prerendered request goes on to c.next as well.
ServeHTTPFallThrough ==
    /\ pc = "idle"
    /\ c # NoClient
    /\ decision' = Append(decision, IsPrerender(r))
    /\ IF IsPrerender(r)
       THEN /\ bo' = NewExponentialBackOff(c)
            /\ pc' = "op"
            /\ nextCalls' = IF c.next = NoHandler THEN nextCalls
                            ELSE Append(nextCalls, r)
            /\ UNCHANGED w
       ELSE IF c.next = NoHandler
       THEN /\ w' = HttpError(w, StatusInternalServerError)
            /\ pc' = "done"
            /\ UNCHANGED <<bo, nextCalls>>
       ELSE /\ nextCalls' = Append(nextCalls, r)
            /\ pc' = "done"
            /\ UNCHANGED <<bo, w>>
    /\ UNCHANGED <<cfg, c, r, r0, outputStarted, resp, err, attempts, sent,
                   before, urls, cleaned, other>>

\* c.ServeHTTP(w, r) up to its return, or up to the first attempt of the
\* GetPrerenderedPage it calls.
ServeHTTP ==
    /\ pc = "idle"
    /\ c # NoClient
    /\ decision' = Append(decision, IsPrerender(r))
    /\ IF IsPrerender(r)
       THEN /\ bo' = NewExponentialBackOff(c)
            /\ pc' = "op"
            /\ UNCHANGED <<w, nextCalls>>
       ELSE IF c.next = NoHandler
       THEN /\ w' = HttpError(w, StatusInternalServerError)
            /\ pc' = "done"
            /\ UNCHANGED <<bo, nextCalls>>
       ELSE /\ nextCalls' = Append(nextCalls, r)
            /\ pc' = "done"
            /\ UNCHANGED <<bo, w>>
    /\ UNCHANGED <<cfg, c, r, r0, outputStarted, resp, err, attempts, sent,
                   before, urls, cleaned, other>>

NextServe ==
    \/ ServeHTTP
    \/ OperationSend
    \/ OperationReceive
    \/ CopyChunk
    \/ CopyDone
    \/ CopyError
    \/ GiveUp
    \/ Backoff

ServeSpec == ServeInit /\ [][NextServe]_vars

(***************************************************************************)
(* The path normaliser on its own: cleanPath applied to the URL of a       *)
(* request.                                                                *)
(***************************************************************************)
\* URLs with and without scheme, opaque part, user, host and query, whose
\* path is empty, relative, rooted or the root.
CleanURLs ==
    [Scheme : {<<>>, <<"h", "t", "t", "p">>},
     Opaque : {<<>>, <<"o", "p">>},
     User : {<<>>, <<"u", ":", "p">>},
     Host : {<<>>, <<"h", "o", "s", "t">>},
     Path : {<<>>, <<"a", "/", "b">>, <<"/", "a", "/", "b">>, <<"/">>},
     RawQuery : {<<>>, <<"x", "=", "1">>}]

CleanInit ==
    /\ cfg \in ServeConfigs
    /\ c = New(cfg).client
    /\ r \in [Method : {"GET"}, URL : CleanURLs, Header : {EmptyHeader}]
    /\ r0 = r.Header
    /\ Idle

\* cleanPath(r.URL) is called; it works on a copy of the URL.
Clean ==
    /\ cleaned = <<>>
    /\ cleaned' = <<cleanPath(r.URL)>>
    /\ UNCHANGED <<cfg, c, r, r0, w, outputStarted, pc, resp, bo, err, attempts,
                   sent, before, urls, nextCalls, decision, other>>

CleanSpec == CleanInit /\ [][Clean]_vars

(***************************************************************************)
(* Two fetches through one Client, each in its own goroutine.  The Client  *)
(* (cfg, c) is the one thing they share; w and r are the arguments of a    *)
(* call, outputStarted and bo its local variables, and the remaining       *)
(* variables its position and history.  One goroutine runs at a time: its  *)
(* call is in the variables, the call of the other one is kept in other,   *)
(* and Switch hands the processor over.                                    *)
(***************************************************************************)
\* The call of GetPrerenderedPage that is running.
Self ==
    [r |-> r, r0 |-> r0, w |-> w, outputStarted |-> outputStarted, pc |-> pc,
     resp |-> resp, bo |-> bo, err |-> err, attempts |-> attempts,
     sent |-> sent, before |-> before, urls |-> urls]

ConcurrentConfigs ==
    {cf \in Configs : /\ cf.Token # "" /\ cf.IP = "" /\ cf.Timeout = 30000
                      /\ cf.FetchErrorStatus = 0 /\ ~cf.RetryUnavailable}

\* The call GetPrerenderedPage(w, req) before its first step.
NewCall(req) ==
    [r |-> req, r0 |-> req.Header, w |-> NewResponseWriter,
     outputStarted |-> FALSE, pc |-> "idle", resp |-> NoResponse,
     bo |-> [currentInterval |-> 0, elapsed |-> 0, maxElapsedTime |-> 0],
     err |-> "nil", attempts |-> 0, sent |-> <<>>, before |-> "none",
     urls |-> <<>>]

\* A GET with a forwarding chain and conditional headers is about to be
\* fetched by one goroutine, a HEAD without them by the other.
ConcurrentInit ==
    /\ cfg \in ConcurrentConfigs
    /\ c = New(cfg).client
    /\ r \in {q \in Requests : q.Method = "GET" /\ q.Header.XForwardedFor # ""}
    /\ r0 = r.Header
    /\ w = NewResponseWriter
    /\ outputStarted = FALSE
    /\ pc = "idle"
    /\ resp = NoResponse
    /\ bo = [currentInterval |-> 0, elapsed |-> 0, maxElapsedTime |-> 0]
    /\ err = "nil"
    /\ attempts = 0
    /\ sent = <<>>
    /\ before = "none"
    /\ urls = <<>>
    /\ nextCalls = <<>>
    /\ decision = <<>>
    /\ cleaned = <<>>
    /\ other \in {<<NewCall(q)>> :
                     q \in {q \in Requests : /\ q.Method = "HEAD"
                                             /\ q.Header.XForwardedFor = ""}}

\* Switch with a slip: outputStarted is one flag for both calls, as if it
\* were a field of the Client.
SwitchSharedFlag ==
    /\ other # <<>>
    /\ other' = <<Self>>
    /\ r' = other[1].r
    /\ r0' = other[1].r0
    /\ w' = other[1].w
    /\ pc' = other[1].pc
    /\ resp' = other[1].resp
    /\ bo' = other[1].bo
    /\ err' = other[1].err
    /\ attempts' = other[1].attempts
    /\ sent' = other[1].sent
    /\ before' = other[1].before
    /\ urls' = other[1].urls
    /\ UNCHANGED <<cfg, c, outputStarted, nextCalls, decision, cleaned>>

\* The goroutine that runs is suspended and the other one resumed: each has
\* its own w, r, outputStarted and bo; neither step touches the Client.
Switch ==
    /\ other # <<>>
    /\ other' = <<Self>>
    /\ r' = other[1].r
    /\ r0' = other[1].r0
    /\ w' = other[1].w
    /\ outputStarted' = other[1].outputStarted
    /\ pc' = other[1].pc
    /\ resp' = other[1].resp
    /\ bo' = other[1].bo
    /\ err' = other[1].err
    /\ attempts' = other[1].attempts
    /\ sent' = other[1].sent
    /\ before' = other[1].before
    /\ urls' = other[1].urls
    /\ UNCHANGED <<cfg, c, nextCalls, decision, cleaned>>

\* The attempts of the two fetches: each fails in transport or is answered
\* 200 (with a body of one byte at most), 302 or 503, at once or after the
\* budget has run out (so that a fetch makes two attempts at most).
ConcurrentOutcome(o, t) ==
    /\ t \in {u \in ClockReadings : u = 0 \/ u = 30040}
    /\ o.len \in {0, 1}
    /\ o.kind = "error" \/ o.status \in {StatusOK, StatusFound,
                                         StatusServiceUnavailable}
    /\ o.location \in {NoLocation, "/moved"}

NextConcurrent ==
    \/ Switch
    \/ GetPrerenderedPage
    \/ OperationSend
    \/ OperationReceive /\ ConcurrentOutcome(resp', bo'.elapsed)
    \/ CopyChunk
    \/ CopyDone
    \/ CopyError
    \/ GiveUp
    \/ Backoff

ConcurrentSpec == ConcurrentInit /\ [][NextConcurrent]_vars

(***************************************************************************)
(* Vocabulary of the properties.                                           *)
(***************************************************************************)
\* The bytes of upstream bodies among those written to the caller.
UpstreamBytes(wr) == SelectSeq(wr.body, LAMBDA b : b[1] # 0)

\* The upstream answered 503 or 404.
Unavailable(o) ==
    o.kind = "resp" /\ o.status \in {StatusServiceUnavailable, StatusNotFound}

\* An attempt's outcome that is neither a redirect, nor a page, nor a
\* 503/404 the configuration makes permanent.
TransientOutcome(client, o) ==
    \/ o.kind = "error"
    \/ /\ o.kind \in {"resp", "refused"}
       /\ o.status \notin {StatusOK, StatusFound}
       /\ ~(~client.retryUnavailable /\ Unavailable(o))

\* The back-off has time left: NextBackOff does not say Stop.
BudgetLeft(b) == b.elapsed <= b.maxElapsedTime

(***************************************************************************)
(* Vocabulary of the classifier's properties, stated on the text of the    *)
(* request rather than through the patterns.                               *)
(***************************************************************************)
Lower(chars) == [i \in 1..Len(chars) |-> Fold(chars[i])]

\* The first positions at which token occurs in the lower-cased ua.
Occurrences(ua, token) ==
    LET low == Lower(ua)
    IN  {i \in 1..(Len(ua) - Len(token) + 1) :
            \A k \in 1..Len(token) : low[i + k - 1] = token[k]}

AllowTokens ==
    {<<"b", "o", "t">>,
     <<"g", "o", "o", "g", "l", "e">>,
     <<"c", "r", "a", "w", "l", "e", "r">>,
     <<"s", "p", "i", "d", "e", "r">>,
     <<"a", "r", "c", "h", "i", "v", "e", "r">>,
     <<"p", "i", "n", "t", "e", "r", "e", "s", "t">>,
     <<"f", "a", "c", "e", "b", "o", "o", "k", "e", "x", "t", "e", "r", "n",
       "a", "l", "h", "i", "t">>,
     <<"f", "l", "i", "p", "b", "o", "a", "r", "d", "p", "r", "o", "x", "y">>}

DenyTokens ==
    {<<"b", "i", "n", "g">>,
     <<"m", "s", "n", "b", "o", "t">>,
     <<"y", "a", "n", "d", "e", "x", "b", "o", "t">>,
     <<"m", "a", "i", "l", ".", "r", "u">>}

AllowListed(ua) == \E t \in AllowTokens : Occurrences(ua, t) # {}

\* One of the deny tokens, or "pinterest" with "ios" somewhere after it.
DenyListed(ua) ==
    \/ \E t \in DenyTokens : Occurrences(ua, t) # {}
    \/ \E i \in Occurrences(ua, <<"p", "i", "n", "t", "e", "r", "e", "s",
      "t">>) :
          \E j \in Occurrences(ua, <<"i", "o", "s">>) : j >= i + 9

\* The path ends in a dot followed by an extension of 2, 3 or 4 characters.
StaticPath(path) ==
    \E k \in 2..4 :
        /\ Len(path) > k
        /\ path[Len(path) - k] = "."
        /\ \A j \in (Len(path) - k + 1)..Len(path) : path[j] \notin {".", "/"}

HasFragment(req) == Contains(req.URL.RawQuery, EscapedFragment)

\* IsPrerender(r) has been called on a GET or HEAD request whose query has
\* no _escaped_fragment_.
ClassifiedByAgentAndPath ==
    /\ decision # <<>>
    /\ r.Method \in {"GET", "HEAD"}
    /\ ~HasFragment(r)

(***************************************************************************)
(* C1.  Whenever an upstream attempt returns 302, on the first attempt or  *)
(* after any number of failed attempts, the fetch ends there and the       *)
(* caller's response has status 302 and the upstream's Location.           *)
(* Refuted: a 302 that follows a partly streamed 200 cannot change the     *)
(* status 200 already sent.                                                *)
(***************************************************************************)
C1_RedirectRelayed ==
    (resp.status = StatusFound) =>
        /\ pc = "done"
        /\ CallerStatus(w) = StatusFound
        /\ CallerHeader(w).Location = resp.location

(***************************************************************************)
(* C2.  With RetryUnavailable false, the attempt answered 503 or 404 is    *)
(* the last one, and when no byte has been streamed the caller receives    *)
(* the fallback status.  Refuted: after a 200 whose copy failed before its *)
(* first byte, outputStarted suppresses the fallback.                      *)
(***************************************************************************)
C2_PermanentUnavailable ==
    (Unavailable(resp) /\ ~c.retryUnavailable) =>
        /\ pc = "done"
        /\ (UpstreamBytes(w) = <<>> => CallerStatus(w) = c.fetchErrorStatus)

(***************************************************************************)
(* C3.  With RetryUnavailable true: an attempt answered 503 or 404 writes  *)
(* nothing and hands Retry a retryable error; after such attempts only,    *)
(* with budget left, Retry makes a new attempt; and when the 200 that      *)
(* follows them has been copied to its end, the caller has status 200,     *)
(* that response's headers and exactly its body.                           *)
(***************************************************************************)
C3_RetryUntilRendered ==
    [][/\ (/\ pc = "do"
           /\ c.retryUnavailable
           /\ Unavailable(resp'))
          => (pc' = "next" /\ w' = w /\ outputStarted' = outputStarted)
       /\ (/\ pc = "next"
           /\ c.retryUnavailable
           /\ Unavailable(resp)
           /\ before \in {"none", "unavailable"}
           /\ BudgetLeft(bo))
          => (pc' = "op" /\ w' = w /\ outputStarted' = outputStarted)
       /\ (/\ pc = "copy"
           /\ pc' = "done"
           /\ c.retryUnavailable
           /\ before = "unavailable")
          => /\ err' = "nil"
             /\ CallerStatus(w') = StatusOK
             /\ CallerHeader(w').Upstream = resp.id
             /\ w'.body = Body(resp.id, resp.len)]_vars

\* 503, 503, then a 200 of full length, delivered.
C3_Witness ==
    /\ pc = "done"
    /\ c.retryUnavailable
    /\ attempts = 3
    /\ before = "unavailable"
    /\ resp.status = StatusOK
    /\ w.body = Body(3, MaxBodyLen)
    /\ CallerStatus(w) = StatusOK

(***************************************************************************)
(* C4.  A fetch that ends in failure with no byte of an upstream body      *)
(* written leaves the caller with FetchErrorStatus and the error body.     *)
(* Refuted: outputStarted is set before io.Copy writes anything.           *)
(***************************************************************************)
C4_FallbackOnFailure ==
    (pc = "done" /\ err # "nil" /\ UpstreamBytes(w) = <<>>) =>
        /\ CallerStatus(w) = c.fetchErrorStatus
        /\ w.body = <<<<0, 2>>>>

(***************************************************************************)
(* C5.  Once a byte of a 200 body has been written to the caller, the      *)
(* status sent stays 200 and http.Error is never applied to the response.  *)
(***************************************************************************)
C5_NoFallbackAfterBytes ==
    (UpstreamBytes(w) # <<>>) =>
        /\ w.code = StatusOK
        /\ \A i \in 1..Len(w.body) : w.body[i] # <<0, 2>>

\* A fetch that failed after bytes had been streamed.
C5_Witness ==
    /\ pc = "done"
    /\ err \in {"stop", "permanent"}
    /\ UpstreamBytes(w) # <<>>

(***************************************************************************)
(* C6.  Once streaming of a 200 body has started the fetch is terminal:    *)
(* no retryable error reaches the retry loop, no further attempt is made   *)
(* and nothing is written after the copy ends.  Refuted: opFunc returns    *)
(* io.Copy's error and Retry retries.                                      *)
(***************************************************************************)
C6_StreamingIsTerminal ==
    [][outputStarted =>
          /\ attempts' = attempts
          /\ pc' \in {"copy", "done"}
          /\ (pc' = "done" => w' = w)]_vars

(***************************************************************************)
(* C7.  On every attempt the outbound X-Forwarded-For is the server IP     *)
(* alone, or the server IP followed by the chain the request arrived with. *)
(* Refuted: the outbound header map is the inbound one, so a retry reads   *)
(* the value the previous attempt stored.                                  *)
(***************************************************************************)
C7_ForwardedForEveryAttempt ==
    \A i \in 1..Len(sent) :
        sent[i].XForwardedFor =
            IF r0.XForwardedFor = "" THEN c.ip
            ELSE c.ip \o ", " \o r0.XForwardedFor

(***************************************************************************)
(* C8.  The caller's body is a prefix of the body of one upstream 200      *)
(* response, whose headers are the ones sent.  Refuted: a retry after a    *)
(* failed copy appends the next response's bytes.                          *)
(***************************************************************************)
C8_OneUpstreamResponse ==
    LET up == UpstreamBytes(w)
    IN  (up # <<>>) =>
            /\ up = w.body
            /\ \A i \in 1..Len(up) : up[i] = <<up[1][1], i>>
            /\ CallerHeader(w).Upstream = up[1][1]

(***************************************************************************)
(* C9.  An attempt that meets a transport error, or a status other than    *)
(* 200, 302 and a permanent 503/404, writes nothing to the caller and      *)
(* hands a transient error to Retry, which makes another attempt unless    *)
(* the budget is exhausted.                                                *)
(***************************************************************************)
C9_TransientFailure ==
    [][/\ (pc = "do" /\ TransientOutcome(c, resp'))
          => (w' = w /\ outputStarted' = outputStarted /\ pc' = "next"
              /\ err' = "transient")
       /\ (pc = "next" /\ err = "transient" /\ BudgetLeft(bo))
          => (pc' = "op" /\ w' = w)]_vars

\* A second attempt is about to follow a 304, with nothing written.
C9_Witness ==
    /\ pc = "op"
    /\ attempts = 1
    /\ resp.status = 304
    /\ w = NewResponseWriter

(***************************************************************************)
(* C10.  With Timeout zero the fetch never gives up on elapsed time.       *)
(* Refuted: no default is put in the place of the zero, and the 15 minutes *)
(* of NewExponentialBackOff's MaxElapsedTime stay in force, so a fetch     *)
(* whose attempts keep failing gives up once more than that has elapsed.   *)
(***************************************************************************)
C10_UnboundedBudget ==
    (pc = "done" /\ c.timeout = 0) => err # "stop"

(***************************************************************************)
(* C11.  With Timeout positive and every attempt returning, the fetch      *)
(* ends; no attempt starts once more than Timeout has elapsed; and at the  *)
(* end a response has been written to the caller: a 200, a 302 or the      *)
(* fallback status.  Refuted: Retry reads the clock before it sleeps, so   *)
(* the attempt after the sleep may start past Timeout; and a fetch that    *)
(* failed after outputStarted was set, before any byte, writes nothing.    *)
(* (A 200 with an empty body, copied to its end, counts as written.)       *)
(***************************************************************************)
C11_TerminatesWithinBudget ==
    /\ <>(pc = "done")
    /\ [][attempts' = attempts + 1 => bo.elapsed <= c.timeout]_vars
    /\ [](pc = "done" =>
            \/ w.code \in {StatusOK, StatusFound, c.fetchErrorStatus}
            \/ err = "nil" /\ resp.status = StatusOK /\ resp.len = 0)

(***************************************************************************)
(* C12.  No request goes to the target of an upstream redirect: every      *)
(* request is for the service URL of the inbound request; and an upstream  *)
(* redirect ends the fetch with the caller receiving a redirect to the     *)
(* upstream's Location.  Refuted: a redirect other than 302 is retried as  *)
(* a failure, and a 302 that follows a partly streamed 200 is lost.        *)
(***************************************************************************)
C12_RedirectNotFollowed ==
    /\ \A i \in 1..Len(urls) : urls[i].URL = RequestURL(c, r)
    /\ (resp.kind = "refused") =>
          /\ pc = "done"
          /\ CallerStatus(w) \in {301, StatusFound}
          /\ CallerHeader(w).Location = resp.location

(***************************************************************************)
(* C13.  ServeHTTP does one of three things, by what IsPrerender says of   *)
(* the request and by c.next.  True: GetPrerenderedPage is started and     *)
(* c.next is never called.  False with c.next set: c.next is called once,  *)
(* with the request, nothing else is written and no upstream attempt is    *)
(* made.  False with c.next nil: the caller receives 500, and neither      *)
(* c.next nor the upstream is called.                                      *)
(***************************************************************************)
C13_ServeHTTPDispatch ==
    /\ (pc # "idle") => (decision = <<IsPrerender(r)>>)
    /\ (decision # <<>>) =>
          IF decision[1]
          THEN nextCalls = <<>> /\ pc \in {"op", "do", "copy", "next", "done"}
          ELSE IF c.next # NoHandler
          THEN /\ pc = "done"
               /\ nextCalls = <<r>>
               /\ w = NewResponseWriter
               /\ attempts = 0 /\ urls = <<>>
          ELSE /\ pc = "done"
               /\ CallerStatus(w) = StatusInternalServerError
               /\ nextCalls = <<>>
               /\ attempts = 0 /\ urls = <<>>

\* A prerendered request has been served to its end by a Client that has a
\* next handler.
C13_Witness ==
    /\ pc = "done"
    /\ decision = <<TRUE>>
    /\ c.next # NoHandler
    /\ attempts > 0
    /\ CallerStatus(w) = StatusOK
    /\ w.body # <<>>

(***************************************************************************)
(* C14.  A GET or HEAD request whose raw query contains _escaped_fragment_ *)
(* is classified true, whatever its User-Agent (deny-listed, absent) and   *)
(* whatever its path (static or not).                                      *)
(***************************************************************************)
C14_EscapedFragmentWins ==
    (decision # <<>> /\ r.Method \in {"GET", "HEAD"} /\ HasFragment(r))
        => decision = <<TRUE>>

\* A HEAD request for a static path by a deny-listed agent, with the
\* fragment as a later parameter, classified true.
C14_Witness ==
    /\ decision = <<TRUE>>
    /\ r.Method = "HEAD"
    /\ HasFragment(r)
    /\ r.URL.RawQuery[1] = "a"
    /\ DenyListed(r.Header.UserAgent)
    /\ StaticPath(r.URL.Path)

(***************************************************************************)
(* C15.  A request whose method is neither GET nor HEAD is classified      *)
(* false, even with _escaped_fragment_ in the query and an allow-listed    *)
(* User-Agent.                                                             *)
(***************************************************************************)
C15_OtherMethodsNever ==
    (decision # <<>> /\ r.Method \notin {"GET", "HEAD"})
        => decision = <<FALSE>>

\* A POST with the fragment and an allow-listed agent, classified false.
C15_Witness ==
    /\ decision = <<FALSE>>
    /\ r.Method = "POST"
    /\ HasFragment(r)
    /\ AllowListed(r.Header.UserAgent)
    /\ ~DenyListed(r.Header.UserAgent)
    /\ ~StaticPath(r.URL.Path)

(***************************************************************************)
(* C16.  Without the fragment, a GET or HEAD request whose User-Agent      *)
(* contains, in any letter case, bing, msnbot, yandexbot, mail.ru, or      *)
(* pinterest followed by ios, is classified false, on any path and even    *)
(* when the same User-Agent contains an allow-list token.                  *)
(***************************************************************************)
C16_DenyListWins ==
    (ClassifiedByAgentAndPath /\ DenyListed(r.Header.UserAgent))
        => decision = <<FALSE>>

\* An agent with capitals that is on both lists, on a path without a dot,
\* classified false.
C16_Witness ==
    /\ ClassifiedByAgentAndPath
    /\ decision = <<FALSE>>
    /\ DenyListed(r.Header.UserAgent)
    /\ AllowListed(r.Header.UserAgent)
    /\ Lower(r.Header.UserAgent) # r.Header.UserAgent
    /\ \A i \in 1..Len(r.URL.Path) : r.URL.Path[i] # "."

(***************************************************************************)
(* C17.  Without the fragment, a GET or HEAD request for a path that ends  *)
(* in a dot followed by 2, 3 or 4 characters is classified false, with or  *)
(* without a query, even when the User-Agent is allow-listed and not       *)
(* deny-listed.                                                            *)
(***************************************************************************)
C17_StaticPathsExcluded ==
    (ClassifiedByAgentAndPath /\ StaticPath(r.URL.Path))
        => decision = <<FALSE>>

\* An allow-listed agent asks for a path with a 4-character extension and
\* a query, and is classified false.
C17_Witness ==
    /\ ClassifiedByAgentAndPath
    /\ decision = <<FALSE>>
    /\ StaticPath(r.URL.Path)
    /\ Len(r.URL.Path) > 4
    /\ r.URL.Path[Len(r.URL.Path) - 4] = "."
    /\ r.URL.RawQuery # <<>>
    /\ AllowListed(r.Header.UserAgent)
    /\ ~DenyListed(r.Header.UserAgent)

(***************************************************************************)
(* C18.  Only a path that ends in a dot followed by 2 to 4 characters is   *)
(* excluded: without the fragment, a GET or HEAD request by an agent that  *)
(* is allow-listed and not deny-listed is classified true on every other   *)
(* path.  Refuted: regexPath's second alternative matches a dot followed   *)
(* by two characters anywhere in the path.                                 *)
(***************************************************************************)
C18_OnlyStaticPathsExcluded ==
    (/\ ClassifiedByAgentAndPath
     /\ AllowListed(r.Header.UserAgent)
     /\ ~DenyListed(r.Header.UserAgent)
     /\ ~StaticPath(r.URL.Path))
        => decision = <<TRUE>>

(***************************************************************************)
(* C19.  For Googlebot, without the fragment, a GET of /index.html or of   *)
(* /index.htm is classified true while a GET of /somefile.html is          *)
(* classified false.  Refuted: IsPrerender has no exception for index      *)
(* pages, regexPath excludes them like any other file.                     *)
(***************************************************************************)
C19_IndexPagesException ==
    (/\ ClassifiedByAgentAndPath
     /\ r.Method = "GET"
     /\ r.Header.UserAgent = <<"G", "o", "o", "g", "l", "e", "b", "o", "t">>)
        => /\ (r.URL.Path \in
                  {<<"/", "i", "n", "d", "e", "x", ".", "h", "t", "m", "l">>,
                   <<"/", "i", "n", "d", "e", "x", ".", "h", "t", "m">>})
                 => decision = <<TRUE>>
           /\ (r.URL.Path =
                  <<"/", "s", "o", "m", "e", "f", "i", "l", "e",
                    ".", "h", "t", "m", "l">>)
                 => decision = <<FALSE>>

(***************************************************************************)
(* C20.  Without the fragment, on a path that does not end in a dot and a  *)
(* 2 to 4 character extension, a GET or HEAD request by an agent that is   *)
(* not deny-listed is classified true exactly when its User-Agent          *)
(* contains, in any letter case, one of the allow-list tokens.  Refuted    *)
(* on the paths regexPath excludes beyond those (see C18).                 *)
(***************************************************************************)
C20_AllowListDecides ==
    (/\ ClassifiedByAgentAndPath
     /\ ~StaticPath(r.URL.Path)
     /\ ~DenyListed(r.Header.UserAgent))
        => decision = <<AllowListed(r.Header.UserAgent)>>

(***************************************************************************)
(* C21.  New with an empty Token returns ErrNoToken and no client,         *)
(* whatever the other fields of the Config; New with a Token returns a     *)
(* client and a nil error.  Without a client nothing is ever fetched.      *)
(***************************************************************************)
C21_NoTokenNoClient ==
    /\ c = New(cfg).client
    /\ IF cfg.Token = ""
       THEN /\ c = NoClient
            /\ New(cfg).err = "ErrNoToken"
            /\ pc = "idle" /\ attempts = 0
       ELSE /\ c # NoClient
            /\ c.token = cfg.Token
            /\ New(cfg).err = "nil"

\* A Config with every field set but the Token, and no client.
C21_Witness ==
    /\ cfg.Token = ""
    /\ cfg.IP # "" /\ cfg.Timeout > 0 /\ cfg.FetchErrorStatus # 0
    /\ cfg.UnconditionalFetch /\ cfg.RetryUnavailable
    /\ c = NoClient

(***************************************************************************)
(* Vocabulary of the claims about the outbound request.                    *)
(***************************************************************************)
\* The path of u, rooted, and after it "?" and the query of u if it has one.
PathAndQuery(u) ==
    (IF u.Path = <<>> \/ u.Path[1] # "/" THEN <<"/">> ELSE <<>>)
        \o u.Path
        \o (IF u.RawQuery = <<>> THEN <<>> ELSE <<"?">> \o u.RawQuery)

(***************************************************************************)
(* C22.  Every request sent upstream is a GET for the service's address,   *)
(* then "/" and the token, then the path and query of the inbound request, *)
(* whether that one is a GET or a HEAD; and every attempt of a fetch sends *)
(* the same request.                                                       *)
(***************************************************************************)
C22_GetToTokenPath ==
    \A i \in 1..Len(urls) :
        /\ urls[i].Method = "GET"
        /\ urls[i].URL = c.server \o "/" \o cfg.Token
                             \o Str(PathAndQuery(r.URL))
        /\ urls[i] = urls[1]

\* A HEAD request for an absolute URL with a query, on its second attempt.
C22_Witness ==
    /\ r.Method = "HEAD"
    /\ r.URL.Host # <<>> /\ r.URL.Path # <<>> /\ r.URL.RawQuery # <<>>
    /\ attempts >= 2 /\ Len(urls) = attempts

(***************************************************************************)
(* C23.  On every attempt the outbound request carries the headers the     *)
(* inbound request arrived with, except that X-Forwarded-For is the server *)
(* IP in front of the chain it arrived with, and that If-Modified-Since    *)
(* and If-None-Match are absent exactly if UnconditionalFetch is set.      *)
(* Refuted on X-Forwarded-For alone: a retry sends the value the attempt   *)
(* before it stored in the shared header map.                              *)
(***************************************************************************)
C23_HeadersForwarded ==
    \A i \in 1..Len(sent) :
        /\ sent[i].UserAgent = r0.UserAgent
        /\ sent[i].IfModifiedSince =
               IF cfg.UnconditionalFetch THEN "" ELSE r0.IfModifiedSince
        /\ sent[i].IfNoneMatch =
               IF cfg.UnconditionalFetch THEN "" ELSE r0.IfNoneMatch
        /\ sent[i].XForwardedFor =
               (IF r0.XForwardedFor = "" THEN c.ip
                ELSE c.ip \o ", " \o r0.XForwardedFor)

(***************************************************************************)
(* Vocabulary of the claim about cleanPath.                                *)
(***************************************************************************)
\* The characters of str before its first "?".
RECURSIVE BeforeQuery(_)
BeforeQuery(str) ==
    IF str = <<>> \/ Head(str) = "?" THEN <<>>
    ELSE <<Head(str)>> \o BeforeQuery(Tail(str))

\* The URL a request line with the target str is parsed to: the path up to
\* the first "?" and the query after it.
ParseRequestURI(str) ==
    LET path == BeforeQuery(str)
    IN  ServerURL(path, IF Len(path) = Len(str) THEN <<>>
                        ELSE SubSeq(str, Len(path) + 2, Len(str)))

(***************************************************************************)
(* C25.  cleanPath returns the path of the URL, rooted, and its query, and *)
(* nothing of its scheme, host, user or opaque part: the result starts     *)
(* with "/", http://host/a/b?x=1 gives /a/b?x=1 and an empty path gives    *)
(* "/".  The URL it was given is as before, and cleanPath of the URL its   *)
(* result spells is that result again.                                     *)
(***************************************************************************)
C25_CleanPath ==
    [][cleaned' # cleaned =>
          LET res == cleaned'[Len(cleaned')]
          IN  /\ r' = r
              /\ res = PathAndQuery(r.URL)
              /\ res[1] = "/"
              /\ (r.URL.Path = <<>> /\ r.URL.RawQuery = <<>>) => res = <<"/">>
              /\ (r.URL = [Scheme |-> <<"h", "t", "t", "p">>,
                           Opaque |-> <<>>, User |-> <<>>,
                           Host |-> <<"h", "o", "s", "t">>,
                           Path |-> <<"/", "a", "/", "b">>,
                           RawQuery |-> <<"x", "=", "1">>])
                     => Str(res) = "/a/b?x=1"
              /\ cleanPath(ParseRequestURI(res)) = res]_vars

\* cleanPath has returned for a URL with scheme, user, host and query whose
\* path is relative.
C25_Witness ==
    /\ cleaned # <<>>
    /\ r.URL.Scheme # <<>> /\ r.URL.User # <<>> /\ r.URL.Host # <<>>
    /\ r.URL.Opaque = <<>> /\ r.URL.RawQuery # <<>>
    /\ r.URL.Path # <<>> /\ r.URL.Path[1] # "/"
    /\ Str(cleaned[1]) = "/a/b?x=1"

(***************************************************************************)
(* C26.  With Timeout zero the retry timeout is the 30 seconds the comment *)
(* on Config.Timeout promises: after a failed attempt the fetch gives up   *)
(* once more than 30 seconds have elapsed, and the caller, if nothing was  *)
(* started, receives the fallback status.  Refuted: no default is applied  *)
(* and the back-off's own 15 minutes stay in force.                        *)
(***************************************************************************)
DocumentedTimeout == 30000

C26_ThirtySecondDefault ==
    [][(pc = "next" /\ cfg.Timeout = 0 /\ bo.elapsed > DocumentedTimeout) =>
          /\ pc' = "done"
          /\ err' = "stop"
          /\ (~outputStarted => CallerStatus(w') = c.fetchErrorStatus)]_vars

(***************************************************************************)
(* Vocabulary of the claim about committing the response.                  *)
(***************************************************************************)
\* The upstream responses of which a body byte was written to the caller.
PagesStarted(wr) ==
    {wr.body[i][1] : i \in {j \in 1..Len(wr.body) : wr.body[j][1] # 0}}

\* How many times the response was committed: once for every upstream
\* response whose body was begun, once if a redirect was written to it and
\* once if the fallback was.
Commits(wr) ==
    Cardinality(PagesStarted(wr))
        + (IF wr.header.Location # NoLocation THEN 1 ELSE 0)
        + (IF \E i \in 1..Len(wr.body) : wr.body[i] = <<0, 2>>
           THEN 1 ELSE 0)

(***************************************************************************)
(* C27.  Whatever the upstream answers, the fetch commits the caller's     *)
(* response at most once: at most one of a redirect, the beginning of a    *)
(* page and the fallback is written to it.  Refuted: after a failed copy   *)
(* the fetch is retried, and the retry writes a redirect or a second page  *)
(* to the response whose status 200 is already sent.                       *)
(***************************************************************************)
C27_CommittedAtMostOnce == Commits(w) <= 1

(***************************************************************************)
(* C28.  GetPrerenderedPage leaves the inbound request as it arrived: at   *)
(* every point of the fetch its X-Forwarded-For, If-Modified-Since,        *)
(* If-None-Match and other headers, its method and its URL are the ones it *)
(* came with.  Refuted: the outbound request is given the inbound header   *)
(* map itself, so what is set and deleted for upstream is set and deleted  *)
(* in the inbound request.                                                 *)
(***************************************************************************)
C28_InboundUnchanged ==
    [][/\ r'.Method = r.Method
       /\ r'.URL = r.URL
       /\ r'.Header = r0]_vars

(***************************************************************************)
(* Vocabulary of the claim about concurrent fetches.                       *)
(***************************************************************************)
\* What the call f shows of itself is accounted for by its own request and
\* by the answers to its own attempts: every attempt sent its own request
\* with its own headers; its flag is set exactly if the headers of a page
\* were copied to its own response; the pages begun on its response are
\* answers to its own attempts; nothing is written to its response before
\* an attempt of its own decided so; a redirect written to it is the one
\* its own last attempt met, with a body exactly if its own request is a
\* GET and no answer to it had set a Content-Type; and if it failed without
\* its flag set, its caller has the fallback.
CallAccountedFor(f) ==
    /\ Len(f.sent) = f.attempts
    /\ Len(f.urls) = f.attempts
    /\ \A i \in 1..Len(f.urls) : f.urls[i] = NewRequest(c, f.r)
    /\ \A i \in 1..Len(f.sent) :
          /\ f.sent[i].UserAgent = f.r0.UserAgent
          /\ f.sent[i].IfNoneMatch =
                 IF c.unconditionalFetch THEN "" ELSE f.r0.IfNoneMatch
          /\ f.sent[i].IfModifiedSince =
                 IF c.unconditionalFetch THEN "" ELSE f.r0.IfModifiedSince
    /\ f.sent # <<>> =>
          f.sent[1].XForwardedFor = XForwardedFor(c.ip, f.r0.XForwardedFor)
    /\ f.outputStarted <=> f.w.header.Upstream # 0
    /\ PagesStarted(f.w) \subseteq 1..f.attempts
    /\ (f.pc # "done" /\ ~f.outputStarted) => f.w = NewResponseWriter
    /\ (f.w.code = StatusFound) =>
          /\ f.resp.status = StatusFound
          /\ f.w.flushed.Location = f.resp.location
          /\ (f.w.body # <<>>) <=>
                 (f.r.Method = "GET" /\ f.w.flushed.ContentType
                                           = "text/html; charset=utf-8")
    /\ (f.pc = "done" /\ f.err # "nil" /\ ~f.outputStarted) =>
          /\ f.w.code = c.fetchErrorStatus
          /\ f.w.flushed.Nosniff

(***************************************************************************)
(* C24.  Two fetches through one Client do not interfere.  No step writes  *)
(* the Client.  A call that is suspended is resumed with the request, the  *)
(* response, the flag and the retry state it was suspended with, and no    *)
(* step of the other call changes them.  And what each call sent upstream  *)
(* and wrote to its caller is accounted for by its own request and the     *)
(* answers to its own attempts.                                            *)
(***************************************************************************)
C24_CallsDoNotInterfere ==
    [][/\ c' = c
       /\ c = New(cfg).client
       /\ \/ other' = other
          \/ other' = <<Self>> /\ Self' = other[1]
       /\ CallAccountedFor(Self')
       /\ \A i \in 1..Len(other') : CallAccountedFor(other'[i])]_vars

\* One call is streaming the page its second attempt met while the other
\* one, whose first attempt failed, waits in c.http.Do for the answer to
\* its second.
C24_Witness ==
    /\ other # <<>>
    /\ pc = "copy" /\ outputStarted /\ attempts = 2 /\ w.body # <<>>
    /\ other[1].pc = "do" /\ ~other[1].outputStarted
    /\ other[1].attempts = 2
    /\ other[1].r.Header # other[1].r0

====
